---- MODULE Spec2Model ----
(***************************************************************************)
(* BMP180-MQTT-PI: a bridge that reads temperature and pressure from a     *)
(* BMP180 sensor and publishes them to an MQTT broker (src/src/main.rs).   *)
(* Two threads: main (startup, then poll_for_events) and the worker        *)
(* (read_and_publish_data).                                                *)
(***************************************************************************)
EXTENDS Integers, Sequences, FiniteSets, TLC

VARIABLES
    mainPc,       \* position of the main thread in main()
    exitCode,     \* exit status of the process, "none" while it runs
    fault,        \* the startup step that failed, "none" if none did
    args,         \* parsed command line (Args)
    config,       \* Data read by read_config, NoConfig before
    logger,       \* level filter of env_logger, "uninit" before init_logging
    mainLog,      \* records the logger has emitted for the main thread
    workerLog,    \* records the logger has emitted for the worker thread
    mqttOptions,  \* MqttOptions the client was created with, NoOptions before
    threads,      \* live threads of control
    workerPc,     \* position of the worker in read_and_publish_data
    workerRet,    \* value returned by the worker's closure, "none" before
    reading,      \* (temp, pressure) bound by the let at line 106
    trace,        \* sleeps, sensor reads and publish calls of the worker
    inbox,        \* the notification connection.iter() yields next, if any
    handled       \* notifications poll_for_events has matched on, each with
                  \* whether the worker thread was alive then

vars == <<mainPc, exitCode, fault, args, config, logger, mainLog, workerLog, mqttOptions, threads,
          workerPc, workerRet, reading, trace, inbox, handled>>

mainVars == <<mainPc, exitCode, fault, args, config, logger, mqttOptions>>
workerVars == <<workerPc, workerRet, reading, trace, workerLog>>

-----------------------------------------------------------------------------
(* Bounds of the model *)

MaxCycles == 2      \* sampling cycles the worker may start
MaxNotif == 2       \* notifications the connection may deliver

(* Inputs *)

None == "None"
NoConfig == [none |-> TRUE]
NoOptions == [none |-> TRUE]
NoReading == <<>>

ArgLogLevels == {None, "Debug"}

\* f32 readings, in tenths: -5 is -0.5, 250 is 25.0
Temps == {-5, 250}
Pressures == {1013}

Passwords == {"hunter2", "s3cret!"}

NotificationKinds == {"Connect", "Other", "Err", "End"}

-----------------------------------------------------------------------------
(* Data *)

MQTTBroker == [host |-> "broker.local", port |-> 1883,
               username |-> "pi", password |-> "hunter2"]

Data(room, level) ==
    [mqtt_broker |-> MQTTBroker,
     mqtt |-> [room |-> room, identifier |-> "bmp180-1", name |-> "Den Sensor"],
     logging |-> [log_level |-> level]]

\* cfg with another broker password
WithPassword(cfg, password) == [cfg EXCEPT !.mqtt_broker.password = password]

\* the configuration files of the model: one room with no log level and
\* either password, the other room with a log level that names no filter
Configs ==
    {WithPassword(Data("kitchen", None), p) : p \in Passwords}
       \cup {Data("den", "bogus")}

SensorComponent == {"Temperature", "Pressure"}

-----------------------------------------------------------------------------
(* Logging *)

LevelRank(l) ==
    CASE l = "Off" -> 0 [] l = "Error" -> 1 [] l = "Warn" -> 2
      [] l = "Info" -> 3 [] l = "Debug" -> 4 [] l = "Trace" -> 5

LevelFilters == {"Off", "Error", "Warn", "Info", "Debug", "Trace"}

\* a log macro: the record is emitted when the logger is initialised and
\* its filter admits the level
Emit(lg, flt, level, msg) ==
    IF flt \in LevelFilters /\ LevelRank(level) <= LevelRank(flt)
    THEN Append(lg, [level |-> level, msg |-> msg])
    ELSE lg

-----------------------------------------------------------------------------
(* Message Formatter *)

\* Display of an f32 given in tenths: 250 is "25", -5 is "-0.5"
FmtF32(x) ==
    LET a == IF x < 0 THEN -x ELSE x
        int == a \div 10
        frac == a % 10
    IN (IF x < 0 THEN "-" ELSE "") \o ToString(int)
       \o (IF frac = 0 THEN "" ELSE "." \o ToString(frac))

StateTopic(cfg) == "homeassistant/sensor/" \o cfg.mqtt.room \o "/state"

\* a Temperature discovery topic with a separator after the room
TemperatureDiscoveryTopicSeparated(cfg) ==
    "homeassistant/sensor/" \o cfg.mqtt.room \o "/Temperature/config"

TemperatureDiscoveryTopic(cfg) ==
    "homeassistant/sensor/" \o cfg.mqtt.room \o "Temperature/config"

PressureDiscoveryTopic(cfg) ==
    "homeassistant/sensor/" \o cfg.mqtt.room \o "Pressure/config"

ComponentStrs(sensor_component) ==
    IF sensor_component = "Temperature"
    THEN <<"temperature", "value_json.temperature", "°C">>
    ELSE <<"pressure", "value_json.pressure", "kPa">>

get_discovery_message(cfg, sensor_component) ==
    LET strs == ComponentStrs(sensor_component)
        sensor_component_str == strs[1]
        value_template_str == strs[2]
        unit_str == strs[3]
    IN "{  \n"
       \o "   \"device_class\":\"" \o sensor_component_str \o "\",\n"
       \o "   \"state_topic\":\"homeassistant/sensor/" \o cfg.mqtt.room \o "/state\",\n"
       \o "   \"unit_of_measurement\":\"" \o unit_str \o "\",\n"
       \o "   \"value_template\":\"{{ " \o value_template_str \o " }}\",\n"
       \o "   \"unique_id\":\"" \o cfg.mqtt.identifier \o "_" \o sensor_component_str \o "\",\n"
       \o "   \"device\":{\n"
       \o "      \"identifiers\":[\n"
       \o "          \"" \o cfg.mqtt.identifier \o "\"\n"
       \o "      ],\n"
       \o "      \"name\":\"" \o cfg.mqtt.name \o "\"\n"
       \o "    }\n"
       \o "}\n"

get_state_message(temp, pressure) ==
    "{  \n"
    \o "   \"temperature\": " \o FmtF32(temp) \o ",\n"
    \o "   \"pressure\": " \o FmtF32(pressure) \o "\n"
    \o "}\n"

\* a call of client.publish, as the worker's trace records it
PublishCall(kind, topic, qos, retain, payload, ok) ==
    [op |-> "publish", kind |-> kind, topic |-> topic, qos |-> qos,
     retain |-> retain, payload |-> payload, ok |-> ok]

-----------------------------------------------------------------------------
(* State after Args::parse() *)

Init ==
    /\ mainPc = "read_config"
    /\ exitCode = "none"
    /\ fault = "none"
    /\ args \in [log_level : ArgLogLevels, config : {"bmp180.toml"}]
    /\ config = NoConfig
    /\ logger = "uninit"
    /\ mainLog = <<>>
    /\ workerLog = <<>>
    /\ mqttOptions = NoOptions
    /\ threads = {"main"}
    /\ workerPc = "unspawned"
    /\ workerRet = "none"
    /\ reading = NoReading
    /\ trace = <<>>
    /\ inbox = <<>>
    /\ handled = <<>>

\* the process ends: main returns (or panics) and every thread goes with it
ProcessExit(code) ==
    /\ mainPc' = "exited"
    /\ exitCode' = code
    /\ threads' = {}

-----------------------------------------------------------------------------
(* main: startup *)

\* read_config fails: fs::read_to_string or toml::from_str returned Err
ReadConfigErr ==
    /\ mainPc = "read_config"
    /\ \E msg \in {"Could not read file " \o args.config,
                   "Unable to load data from " \o args.config \o " due to error: <e>"} :
          mainLog' = Emit(mainLog, logger, "Error", msg)
    /\ fault' = "config"
    /\ ProcessExit("FAILURE")
    /\ UNCHANGED <<args, config, logger, mqttOptions>>
    /\ UNCHANGED <<workerVars, inbox, handled>>

ReadConfigOk ==
    /\ mainPc = "read_config"
    /\ config' \in Configs
    /\ mainPc' = "init_logging"
    /\ UNCHANGED <<exitCode, fault, args, logger, mainLog, mqttOptions, threads>>
    /\ UNCHANGED <<workerVars, inbox, handled>>

ChosenLogLevel ==
    IF args.log_level /= None THEN args.log_level
    ELSE IF config.logging.log_level /= None THEN config.logging.log_level
    ELSE "Info"

\* init_logging, then info!("Starting ...") of main; parse().unwrap()
\* panics on a string that names no level filter
InitLogging ==
    /\ mainPc = "init_logging"
    /\ IF ChosenLogLevel \in LevelFilters
       THEN /\ logger' = ChosenLogLevel
            /\ mainLog' = Emit(mainLog, ChosenLogLevel, "Info",
                           "Starting BMP180 Temperature/Pressure Sensor")
            /\ mainPc' = "open_i2c"
            /\ UNCHANGED <<exitCode, threads>>
       ELSE /\ ProcessExit("PANIC")
            /\ UNCHANGED <<logger, mainLog>>
    /\ UNCHANGED <<fault, args, config, mqttOptions>>
    /\ UNCHANGED <<workerVars, inbox, handled>>

\* a bus open failure that is logged but does not return
OpenI2CErrContinues ==
    /\ mainPc = "open_i2c"
    /\ mainLog' = Emit(mainLog, logger, "Error", "Cannot initialize I2C device.")
    /\ fault' = "i2c"
    /\ mainPc' = "init_sensor"
    /\ UNCHANGED <<exitCode, threads, args, config, logger, mqttOptions>>
    /\ UNCHANGED <<workerVars, inbox, handled>>

OpenI2CErr ==
    /\ mainPc = "open_i2c"
    /\ mainLog' = Emit(mainLog, logger, "Error", "Cannot initialize I2C device.")
    /\ fault' = "i2c"
    /\ ProcessExit("FAILURE")
    /\ UNCHANGED <<args, config, logger, mqttOptions>>
    /\ UNCHANGED <<workerVars, inbox, handled>>

OpenI2COk ==
    /\ mainPc = "open_i2c"
    /\ mainPc' = "init_sensor"
    /\ UNCHANGED <<exitCode, fault, args, config, logger, mainLog, mqttOptions, threads>>
    /\ UNCHANGED <<workerVars, inbox, handled>>

InitSensorErr ==
    /\ mainPc = "init_sensor"
    /\ mainLog' = Emit(mainLog, logger, "Error", "Can't initialize PMB180 thermostat sensor")
    /\ fault' = "sensor"
    /\ ProcessExit("FAILURE")
    /\ UNCHANGED <<args, config, logger, mqttOptions>>
    /\ UNCHANGED <<workerVars, inbox, handled>>

InitSensorOk ==
    /\ mainPc = "init_sensor"
    /\ mainPc' = "get_mqtt_client"
    /\ UNCHANGED <<exitCode, fault, args, config, logger, mainLog, mqttOptions, threads>>
    /\ UNCHANGED <<workerVars, inbox, handled>>

get_mqtt_client ==
    /\ mainPc = "get_mqtt_client"
    /\ mqttOptions' = [id |-> config.mqtt.name,
                       host |-> config.mqtt_broker.host,
                       port |-> config.mqtt_broker.port,
                       keep_alive |-> 5,
                       username |-> config.mqtt_broker.username,
                       password |-> config.mqtt_broker.password,
                       cap |-> 10]
    /\ mainPc' = "spawn"
    /\ UNCHANGED <<exitCode, fault, args, config, logger, mainLog, threads>>
    /\ UNCHANGED <<workerVars, inbox, handled>>

\* thread::spawn at line 88, then main enters poll_for_events
Spawn ==
    /\ mainPc = "spawn"
    /\ threads' = threads \cup {"worker"}
    /\ workerPc' = "start"
    /\ mainPc' = "poll_for_events"
    /\ UNCHANGED <<exitCode, fault, args, config, logger, mainLog, mqttOptions>>
    /\ UNCHANGED <<workerRet, reading, trace, workerLog, inbox, handled>>

-----------------------------------------------------------------------------
(* main: poll_for_events *)

\* the outer loop is entered: debug!("Polling for events"), then the for
\* loop over connection.iter() waits for notifications
PollEnter ==
    /\ mainPc = "poll_for_events"
    /\ mainLog' = Emit(mainLog, logger, "Debug", "Polling for events")
    /\ mainPc' = "poll"
    /\ UNCHANGED <<exitCode, fault, args, config, logger, mqttOptions, threads>>
    /\ UNCHANGED <<workerVars, inbox, handled>>

\* the connection produces what the iterator yields next: a Connect packet,
\* another event, an error, or the end of the iterator (None); next()
\* hands over one notification at a time
Arrive ==
    /\ mainPc = "poll"
    /\ inbox = <<>>
    /\ Len(inbox) + Len(handled) < MaxNotif
    /\ \E n \in NotificationKinds : inbox' = Append(inbox, n)
    /\ UNCHANGED <<mainVars, mainLog, threads, workerVars, handled>>

\* a Connect arm that logs the credentials the client connected with
NotificationLogWithCredentials(n) ==
    [level |-> IF n = "Err" THEN "Error" ELSE "Debug",
     msg |-> "Connected to MQTT broker as " \o mqttOptions.username
             \o ":" \o mqttOptions.password]

\* one arm of the match at line 124: the record it logs
NotificationLog(n) ==
    CASE n = "Connect" ->
           [level |-> "Debug", msg |-> "Connected to MQTT broker " \o mqttOptions.id]
      [] n = "Other" ->
           [level |-> "Debug", msg |-> "Got event: <e>"]
      [] n = "Err" ->
           [level |-> "Error", msg |-> "Got an error when polling for events: <e>"]

\* an Err arm that leaves the loop, so that main returns
AfterNotificationErrBreaks(n) == IF n = "Err" THEN "exited" ELSE "poll"

\* where main is after the match arm for n has run
AfterNotification(n) == "poll"

Handled(n) == [kind |-> n, workerAlive |-> "worker" \in threads]

\* an event loop that only runs while the worker thread is alive
EventLoopRunsWhileWorkerAlive == mainPc = "poll" /\ "worker" \in threads

\* the loop of poll_for_events has no exit condition: main is in it, and
\* takes the next notification, whenever it is at the for
EventLoopRuns == mainPc = "poll"

\* the body of the for loop for one notification
PollNotification ==
    /\ EventLoopRuns
    /\ inbox /= <<>>
    /\ Head(inbox) /= "End"
    /\ LET n == Head(inbox)
           rec == NotificationLog(n)
       IN /\ mainLog' = Emit(mainLog, logger, rec.level, rec.msg)
          /\ handled' = Append(handled, Handled(n))
          /\ mainPc' = AfterNotification(n)
    /\ inbox' = Tail(inbox)
    /\ UNCHANGED <<exitCode, fault, args, config, logger, mqttOptions, threads>>
    /\ UNCHANGED workerVars

\* an event loop without the outer loop: when the iterator ends,
\* poll_for_events returns and main returns ExitCode::SUCCESS
PollIterEndReturns ==
    /\ EventLoopRuns
    /\ inbox /= <<>>
    /\ Head(inbox) = "End"
    /\ handled' = Append(handled, Handled("End"))
    /\ inbox' = Tail(inbox)
    /\ ProcessExit("SUCCESS")
    /\ UNCHANGED <<fault, args, config, logger, mqttOptions, mainLog>>
    /\ UNCHANGED workerVars

\* the iterator returned None: the for loop ends and the outer loop starts
\* its next round with debug!("Polling for events")
PollIterEnd ==
    /\ EventLoopRuns
    /\ inbox /= <<>>
    /\ Head(inbox) = "End"
    /\ mainLog' = Emit(mainLog, logger, "Debug", "Polling for events")
    /\ handled' = Append(handled, Handled("End"))
    /\ inbox' = Tail(inbox)
    /\ UNCHANGED <<mainVars, threads, workerVars>>

-----------------------------------------------------------------------------
(* worker: read_and_publish_data *)

Cycles == Len(SelectSeq(trace, LAMBDA e : e.op = "sleep"))

\* the closure returns: the thread ends, its ExitCode stays in the dropped
\* JoinHandle
WorkerReturn(code) ==
    /\ workerPc' = "returned"
    /\ workerRet' = code
    /\ threads' = threads \ {"worker"}

WorkerStart ==
    /\ workerPc = "start"
    /\ workerLog' = Emit(workerLog, logger, "Info", "Starting read and publish thread")
    /\ workerPc' = "disc_temp"
    /\ UNCHANGED <<mainVars, mainLog, threads, workerRet, reading, trace, inbox, handled>>

temperature_discovery_call(cfg, ok) ==
    PublishCall("disc_temp", TemperatureDiscoveryTopic(cfg), "AtMostOnce", TRUE,
                get_discovery_message(cfg, "Temperature"), ok)

pressure_discovery_call(cfg, ok) ==
    PublishCall("disc_pres", PressureDiscoveryTopic(cfg), "AtMostOnce", TRUE,
                get_discovery_message(cfg, "Pressure"), ok)

\* a state publish without the retain flag
sensor_data_call_not_retained(cfg, temp, pressure, ok) ==
    PublishCall("state", StateTopic(cfg), "AtMostOnce", FALSE,
                get_state_message(temp, pressure), ok)

sensor_data_call(cfg, temp, pressure, ok) ==
    PublishCall("state", StateTopic(cfg), "AtMostOnce", TRUE,
                get_state_message(temp, pressure), ok)

\* a Temperature discovery failure after which the publish is tried again
AfterTemperatureDiscoveryErrRetries == "disc_temp"

\* a Temperature discovery failure after which the worker carries on
AfterTemperatureDiscoveryErrCarriesOn == "disc_pres"

\* where the worker goes when publish_temperature_discovery_message fails:
\* the ? at line 198 returns, and so does line 100
AfterTemperatureDiscoveryErr == "returned"

publish_temperature_discovery_message ==
    /\ workerPc = "disc_temp"
    /\ \E ok \in BOOLEAN :
          LET lg == Emit(workerLog, logger, "Debug",
                         "Publishing sensor temperature discovery message to topic ["
                         \o TemperatureDiscoveryTopic(config) \o "]")
          IN /\ trace' = Append(trace, temperature_discovery_call(config, ok))
             /\ IF ok
                THEN /\ workerLog' = lg
                     /\ workerPc' = "disc_pres"
                     /\ UNCHANGED <<workerRet, threads>>
                ELSE /\ workerLog' = Emit(lg, logger, "Error",
                          "Failed to publish temerature discovery message due to error: <e>")
                     /\ IF AfterTemperatureDiscoveryErr = "returned"
                        THEN WorkerReturn("FAILURE")
                        ELSE /\ workerPc' = AfterTemperatureDiscoveryErr
                             /\ UNCHANGED <<workerRet, threads>>
    /\ UNCHANGED <<mainVars, mainLog, reading, inbox, handled>>

\* a Pressure discovery failure that is ignored
AfterPressureDiscoveryIgnoresErr(ok) == "sleep"

\* where the worker goes after the Pressure discovery publish, by its
\* result: on to the loop at line 104, or the ? at line 199 returns
AfterPressureDiscovery(ok) == IF ok THEN "sleep" ELSE "returned"

publish_pressure_discovery_message ==
    /\ workerPc = "disc_pres"
    /\ \E ok \in BOOLEAN :
          LET lg == Emit(workerLog, logger, "Debug",
                         "Publishing sensor pressure discovery message to topic ["
                         \o PressureDiscoveryTopic(config) \o "]")
          IN /\ trace' = Append(trace, pressure_discovery_call(config, ok))
             /\ workerLog' = IF ok THEN lg
                             ELSE Emit(lg, logger, "Error",
                          "Failed to publish pressure discovery message due to error: <e>")
             /\ IF AfterPressureDiscovery(ok) = "returned"
                THEN WorkerReturn("FAILURE")
                ELSE /\ workerPc' = AfterPressureDiscovery(ok)
                     /\ UNCHANGED <<workerRet, threads>>
    /\ UNCHANGED <<mainVars, mainLog, reading, inbox, handled>>

\* thread::sleep(Duration::from_secs(1)) at the top of the loop
Sleep ==
    /\ workerPc = "sleep"
    /\ Cycles < MaxCycles
    /\ trace' = Append(trace, [op |-> "sleep", secs |-> 1])
    /\ workerPc' = "read"
    /\ UNCHANGED <<mainVars, mainLog, workerLog, threads, workerRet, reading, inbox, handled>>

\* read_from_sensor returns Ok((temp, pressure))
ReadFromSensorOk ==
    /\ workerPc = "read"
    /\ \E temp \in Temps, pressure \in Pressures :
          /\ reading' = <<temp, pressure>>
          /\ trace' = Append(trace, [op |-> "read", ok |-> TRUE,
                                     temp |-> temp, pressure |-> pressure])
          /\ workerLog' = Emit(workerLog, logger, "Debug",
                         "Read sensor data. Temp: [" \o FmtF32(temp)
                         \o "]. Pressure: [" \o FmtF32(pressure) \o "].")
    /\ workerPc' = "publish"
    /\ UNCHANGED <<mainVars, mainLog, threads, workerRet, inbox, handled>>

\* a read failure that falls through to the publish
AfterReadErrFallsThrough == "publish"

\* where the worker goes when read_from_sensor returned Err: the else
\* branch of the let at line 106 returns
AfterReadErr == "returned"

\* read_from_sensor returns Err: temperature_celsius()? or pressure_kpa()?
\* failed
ReadFromSensorErr ==
    /\ workerPc = "read"
    /\ \E failed \in {"temperature", "pressure"} :
          trace' = Append(trace, [op |-> "read", ok |-> FALSE, failed |-> failed])
    /\ workerLog' = Emit(workerLog, logger, "Error", "Cannot initialize I2C device.")
    /\ IF AfterReadErr = "returned"
       THEN /\ WorkerReturn("FAILURE")
            /\ UNCHANGED reading
       ELSE /\ workerPc' = AfterReadErr
            /\ reading' = IF reading = NoReading THEN <<0, 0>> ELSE reading
            /\ UNCHANGED <<workerRet, threads>>
    /\ UNCHANGED <<mainVars, mainLog, inbox, handled>>

\* a worker that returns after its first state publish, failed or not
AfterSensorDataGivesUp(ok) == "returned"

\* a loop that sends the discovery messages again in every round
AfterSensorDataRepublishesDiscovery(ok) == IF ok THEN "disc_temp" ELSE "returned"

\* a loop that skips the sleep after a state publish
AfterSensorDataSkipsSleep(ok) == IF ok THEN "read" ELSE "returned"

\* where the worker goes after a state publish, by its result
AfterSensorData(ok) == IF ok THEN "sleep" ELSE "returned"

publish_sensor_data ==
    /\ workerPc = "publish"
    /\ \E ok \in BOOLEAN :
          LET lg == Emit(workerLog, logger, "Debug",
                         "Publishing sensor data to topic [" \o StateTopic(config) \o "]")
          IN /\ trace' = Append(trace, sensor_data_call(config, reading[1], reading[2], ok))
             /\ workerLog' = IF ok THEN lg
                       ELSE Emit(lg, logger, "Error",
                          "Failed to publish sensor state message due to error: <e>")
             /\ IF AfterSensorData(ok) = "returned"
                THEN WorkerReturn("FAILURE")
                ELSE /\ workerPc' = AfterSensorData(ok)
                     /\ UNCHANGED <<workerRet, threads>>
    /\ UNCHANGED <<mainVars, mainLog, reading, inbox, handled>>

-----------------------------------------------------------------------------

Next ==
    \/ ReadConfigErr
    \/ ReadConfigOk
    \/ InitLogging
    \/ OpenI2CErr
    \/ OpenI2COk
    \/ InitSensorErr
    \/ InitSensorOk
    \/ get_mqtt_client
    \/ Spawn
    \/ PollEnter
    \/ Arrive
    \/ PollNotification
    \/ PollIterEnd
    \/ WorkerStart
    \/ publish_temperature_discovery_message
    \/ publish_pressure_discovery_message
    \/ Sleep
    \/ ReadFromSensorOk
    \/ ReadFromSensorErr
    \/ publish_sensor_data

Spec == Init /\ [][Next]_vars

-----------------------------------------------------------------------------
(* The loop of the worker without an end: past MaxCycles rounds the trace
   and the worker's log keep the discovery part and the latest rounds *)

\* the trace without its oldest sampling cycle (sleep, read, publish)
ForgetOldestCycle(tr) == SubSeq(tr, 1, 2) \o SubSeq(tr, 6, Len(tr))

\* the worker's log without the two debug records of its oldest cycle
ForgetOldestCycleLog(lg) ==
    IF Len(lg) > 3 THEN SubSeq(lg, 1, 3) \o SubSeq(lg, 6, Len(lg)) ELSE lg

\* thread::sleep at the top of a round later than MaxCycles
SleepAgain ==
    /\ workerPc = "sleep"
    /\ Cycles = MaxCycles
    /\ trace' = Append(ForgetOldestCycle(trace), [op |-> "sleep", secs |-> 1])
    /\ workerLog' = ForgetOldestCycleLog(workerLog)
    /\ workerPc' = "read"
    /\ UNCHANGED <<mainVars, mainLog, threads, workerRet, reading, inbox, handled>>

LiveNext == Next \/ SleepAgain

\* the threads run whenever they can; nothing is assumed of the connection
MainStep ==
    \/ ReadConfigErr \/ ReadConfigOk \/ InitLogging \/ OpenI2CErr \/ OpenI2COk
    \/ InitSensorErr \/ InitSensorOk \/ get_mqtt_client \/ Spawn
    \/ PollEnter \/ PollNotification \/ PollIterEnd

WorkerStep ==
    \/ WorkerStart
    \/ publish_temperature_discovery_message
    \/ publish_pressure_discovery_message
    \/ Sleep \/ ReadFromSensorOk \/ ReadFromSensorErr
    \/ publish_sensor_data

FairSpec == Spec /\ WF_vars(MainStep) /\ WF_vars(WorkerStep)

LiveSpec ==
    Init /\ [][LiveNext]_vars /\ WF_vars(MainStep) /\ WF_vars(WorkerStep \/ SleepAgain)

-----------------------------------------------------------------------------
(* Properties *)

IsPublish(e) == e.op = "publish"
IsStatePublish(e) == e.op = "publish" /\ e.kind = "state"
IsReadOk(e) == e.op = "read" /\ e.ok
IsReadErr(e) == e.op = "read" /\ ~e.ok
IsFailure(e) == (e.op = "publish" \/ e.op = "read") /\ ~e.ok
InEventLoop == mainPc \in {"poll_for_events", "poll"} /\ exitCode = "none"
Arrived == Len(handled) + Len(inbox)

\* C1: a state publish is only attempted right after a successful sensor
\* read of the same cycle, and once a sensor read has failed (on the
\* temperature or on the pressure read) the worker has returned and no
\* publish call follows the failed read.
C1_NoPublishAfterReadFailure ==
    \A i \in 1..Len(trace) :
       /\ IsStatePublish(trace[i]) => i > 1 /\ IsReadOk(trace[i-1])
       /\ IsReadErr(trace[i]) =>
             /\ workerPc = "returned"
             /\ \A j \in (i+1)..Len(trace) : ~IsPublish(trace[j])

C1_Witness ==
    /\ workerPc = "returned"
    /\ \E i \in 2..Len(trace) :
          /\ IsReadErr(trace[i])
          /\ trace[i].failed = "pressure"
          /\ \E j \in 1..(i-1) : IsStatePublish(trace[j])

\* C2: the Temperature discovery publish is the worker's first call and the
\* Pressure discovery publish its second, attempted only after the first
\* succeeded; every sleep, sensor read and state publish comes after both
\* discovery publishes have succeeded.
C2_DiscoveryFirst ==
    \A i \in 1..Len(trace) :
       /\ i = 1 => IsPublish(trace[i]) /\ trace[i].kind = "disc_temp"
       /\ i = 2 => IsPublish(trace[i]) /\ trace[i].kind = "disc_pres" /\ trace[1].ok
       /\ i > 2 => /\ trace[i].op \in {"sleep", "read"} \/ IsStatePublish(trace[i])
                   /\ trace[1].ok /\ trace[2].ok

C2_Witness ==
    \E i \in 1..Len(trace) : IsStatePublish(trace[i]) /\ trace[i].ok

\* C3: Failed is terminal and nothing is retried: the worker has returned
\* FAILURE exactly when its last call failed, a failed call is never
\* followed by another sleep, read or publish, and once returned the worker
\* stays returned with its trace frozen.
C3_FailedIsTerminal ==
    /\ [](/\ workerPc = "returned" <=> workerRet = "FAILURE"
          /\ workerPc = "returned" <=> (trace /= <<>> /\ IsFailure(trace[Len(trace)]))
          /\ workerPc = "returned" <=> (workerPc /= "unspawned" /\ "worker" \notin threads)
          /\ \A i \in 1..Len(trace) : IsFailure(trace[i]) => i = Len(trace))
    /\ [][workerPc = "returned" =>
             workerPc' = "returned" /\ trace' = trace /\ workerRet' = workerRet]_vars

C3_Witness ==
    /\ workerPc = "returned"
    /\ Len(trace) = 1
    /\ trace[1].kind = "disc_temp" /\ ~trace[1].ok
    /\ handled /= <<>>

\* C4: once the worker has failed, main is still in poll_for_events, the
\* process has not exited, and every notification that arrives is eventually
\* matched by the loop.
C4_EventLoopSurvivesWorkerFailure ==
    /\ [](workerPc = "returned" => InEventLoop /\ "main" \in threads)
    /\ \A k \in 1..MaxNotif :
          [](workerPc = "returned" /\ Arrived >= k => <>(Len(handled) >= k))

C4_Witness ==
    /\ workerPc = "returned"
    /\ \E i \in 1..Len(handled) : ~handled[i].workerAlive

\* C5: after the loop has matched an Err notification, main is still in the
\* loop and the process has not exited, whatever notifications came before
\* or come after.
C5_ErrorDoesNotEndLoop ==
    (\E i \in 1..Len(handled) : handled[i].kind = "Err") =>
        mainPc = "poll" /\ exitCode = "none" /\ "main" \in threads

C5_Witness ==
    \E i \in 1..(Len(handled) - 1) :
        handled[i].kind = "Err" /\ handled[i+1].kind \in {"Connect", "Other", "Err"}

\* C6: every publish call of the worker uses QoS AtMostOnce with retain set.
C6_AtMostOnceRetained ==
    \A i \in 1..Len(trace) :
       IsPublish(trace[i]) => trace[i].qos = "AtMostOnce" /\ trace[i].retain = TRUE

C6_Witness ==
    \E i, j, k \in 1..Len(trace) :
       /\ IsPublish(trace[i]) /\ trace[i].kind = "disc_temp"
       /\ IsPublish(trace[j]) /\ trace[j].kind = "disc_pres"
       /\ IsStatePublish(trace[k])

\* C7: sampling cycles are sequential: every sensor read directly follows a
\* sleep, every state publish directly follows a successful read and
\* carries exactly the temperature and pressure of that read, and every
\* sleep directly follows the successful Pressure discovery publish or a
\* successful state publish.
C7_CyclesSequential ==
    \A i \in 1..Len(trace) :
       /\ trace[i].op = "read" => i > 1 /\ trace[i-1].op = "sleep"
       /\ IsStatePublish(trace[i]) =>
             /\ i > 2
             /\ IsReadOk(trace[i-1])
             /\ trace[i-2].op = "sleep"
             /\ trace[i].payload =
                   get_state_message(trace[i-1].temp, trace[i-1].pressure)
       /\ trace[i].op = "sleep" =>
             /\ i > 1
             /\ IsPublish(trace[i-1]) /\ trace[i-1].ok
             /\ trace[i-1].kind \in {"disc_pres", "state"}

C7_Witness ==
    \E i, j \in 1..Len(trace) :
       /\ i < j
       /\ IsStatePublish(trace[i]) /\ IsStatePublish(trace[j])
       /\ trace[i].payload /= trace[j].payload

\* C8: a failed startup step (config read or parse, I2C bus open, sensor
\* initialisation) has made the process exit with FAILURE with no worker
\* spawned, no broker client created, no publish and no notification handled.
C8_StartupFailureExitsFirst ==
    fault /= "none" =>
        /\ mainPc = "exited" /\ exitCode = "FAILURE"
        /\ threads = {}
        /\ workerPc = "unspawned"
        /\ mqttOptions = NoOptions
        /\ trace = <<>>
        /\ inbox = <<>> /\ handled = <<>>

C8_Witness ==
    fault = "i2c" /\ exitCode = "FAILURE" /\ config /= NoConfig

\* C9: when the worker thread has returned a failure status the process
\* exits with a failure exit code, and the process exits with SUCCESS only
\* from the event loop.
C9_WorkerFailurePropagates ==
    /\ (workerRet = "FAILURE") ~> (exitCode = "FAILURE")
    /\ [](exitCode = "SUCCESS" => fault = "none" /\ mqttOptions /= NoOptions)

\* C10: from the spawn of the worker until the process ends there are
\* exactly two threads, the worker and main.
C10_ExactlyTwoThreads ==
    (workerPc /= "unspawned" /\ mainPc /= "exited") => threads = {"main", "worker"}

InSampling == workerPc \in {"sleep", "read", "publish"}
PublishesOn(topic) ==
    {i \in 1..Len(trace) : IsPublish(trace[i]) /\ trace[i].topic = topic}
PublishKinds == {"disc_temp", "disc_pres", "state"}

C12_DiscoveryOneTime ==
    config /= NoConfig =>
    /\ Cardinality(PublishesOn(TemperatureDiscoveryTopic(config))) <= 1
    /\ Cardinality(PublishesOn(PressureDiscoveryTopic(config))) <= 1
    /\ InSampling =>
          /\ Cardinality(PublishesOn(TemperatureDiscoveryTopic(config))) = 1
          /\ Cardinality(PublishesOn(PressureDiscoveryTopic(config))) = 1
    /\ \A i, j \in 1..Len(trace) :
          (trace[i].op = "sleep" /\ IsPublish(trace[j]) /\ trace[j].kind /= "state")
             => j < i

C12_Witness ==
    /\ InSampling
    /\ Cycles = MaxCycles
    /\ \E i \in 1..Len(trace) : IsStatePublish(trace[i]) /\ trace[i].ok

\* C13: topic naming: the Temperature discovery publish goes to
\* homeassistant/sensor/<room>Temperature/config, the Pressure discovery
\* publish to homeassistant/sensor/<room>Pressure/config, every state
\* publish to homeassistant/sensor/<room>/state, and the worker publishes
\* on no other topic; for room kitchen these are the literal topics below.
C13_TopicNaming ==
    LET room == config.mqtt.room IN
    \A i \in 1..Len(trace) :
       IsPublish(trace[i]) =>
          /\ trace[i].kind \in PublishKinds
          /\ trace[i].kind = "disc_temp" =>
                trace[i].topic = "homeassistant/sensor/" \o room \o "Temperature/config"
          /\ trace[i].kind = "disc_pres" =>
                trace[i].topic = "homeassistant/sensor/" \o room \o "Pressure/config"
          /\ trace[i].kind = "state" =>
                trace[i].topic = "homeassistant/sensor/" \o room \o "/state"
          /\ room = "kitchen" =>
                trace[i].topic \in {"homeassistant/sensor/kitchenTemperature/config",
                                    "homeassistant/sensor/kitchenPressure/config",
                                    "homeassistant/sensor/kitchen/state"}

C13_Witness ==
    /\ config /= NoConfig
    /\ config.mqtt.room = "kitchen"
    /\ \A k \in PublishKinds :
          \E i \in 1..Len(trace) : IsPublish(trace[i]) /\ trace[i].kind = k

\* C18: the worker returns only in a step whose call (discovery publish,
\* sensor read or state publish) failed, it leaves the sampling loop only by
\* returning, and in every fair execution in which the worker is spawned and
\* never fails it ends up in the sampling loop for good and issues state
\* publishes infinitely often.
C18_FailsOnlyOnFaultElseRunsForever ==
    /\ [][(workerPc /= "returned" /\ workerPc' = "returned") =>
             (trace' /= trace /\ IsFailure(trace'[Len(trace')]))]_vars
    /\ [][InSampling => (InSampling' \/ workerPc' = "returned")]_vars
    /\ ([](workerPc /= "returned") /\ <>(workerPc /= "unspawned")) =>
          (<>[]InSampling /\ []<><<publish_sensor_data>>_vars)

C18_Witness ==
    /\ workerPc = "sleep"
    /\ Cycles = MaxCycles
    /\ workerRet = "none"
    /\ \A i \in 1..Len(trace) : ~IsFailure(trace[i])
    /\ IsStatePublish(trace[Len(trace)])

\* C19: main never leaves poll_for_events once it is in it, whatever the
\* notifications (the end of the iterator included) and whatever the
\* worker does, and the process never exits with SUCCESS.
C19_EventLoopNeverReturns ==
    /\ [](exitCode /= "SUCCESS")
    /\ [][InEventLoop => (InEventLoop' /\ "main" \in threads')]_vars

C19_Witness ==
    /\ mainPc = "poll"
    /\ workerPc = "returned"
    /\ \E i \in 1..(Len(handled) - 1) : handled[i].kind = "End"

\* sub occurs in the text s
Contains(s, sub) ==
    \E i \in 1..(Len(s) - Len(sub) + 1) : SubSeq(s, i, i + Len(sub) - 1) = sub

\* the publish call e of the trace at index i, built again from cfg
RebuiltCall(cfg, i) ==
    LET e == trace[i] IN
    CASE e.kind = "disc_temp" -> temperature_discovery_call(cfg, e.ok)
      [] e.kind = "disc_pres" -> pressure_discovery_call(cfg, e.ok)
      [] e.kind = "state" ->
            sensor_data_call(cfg, trace[i-1].temp, trace[i-1].pressure, e.ok)

\* the newest record of a log or of the trace, if there is one
Newest(seq) == IF seq = <<>> THEN <<>> ELSE <<seq[Len(seq)]>>

\* C16: the broker password reaches nothing but the connection options.
\* The logs and the trace only grow, so every record is at some time the
\* newest one: the newest log record of either thread and the topic and
\* payload of the newest publish never contain a password, every publish
\* call is the same call when built from the configuration with any other
\* password, and the options of get_mqtt_client carry the configured one.
C16_PasswordOnlyInOptions ==
    config /= NoConfig =>
       /\ \A p \in Passwords :
             /\ \A rec \in {Newest(mainLog)[i] : i \in 1..Len(Newest(mainLog))} :
                   ~Contains(rec.msg, p)
             /\ \A rec \in {Newest(workerLog)[i] : i \in 1..Len(Newest(workerLog))} :
                   ~Contains(rec.msg, p)
             /\ \A i \in 1..Len(trace) :
                   IsPublish(trace[i]) =>
                      /\ trace[i] = RebuiltCall(WithPassword(config, p), i)
                      /\ i = Len(trace) =>
                            /\ ~Contains(trace[i].topic, p)
                            /\ ~Contains(trace[i].payload, p)
       /\ mqttOptions /= NoOptions =>
             mqttOptions.password = config.mqtt_broker.password

C16_Witness ==
    /\ config /= NoConfig
    /\ config.mqtt_broker.password = "s3cret!"
    /\ mqttOptions /= NoOptions
    /\ logger = "Debug"
    /\ \E i \in 1..Len(mainLog) : mainLog[i].level = "Error"
    /\ \E i \in 1..Len(workerLog) : workerLog[i].level = "Error"
    /\ \E i \in 1..Len(trace) : IsStatePublish(trace[i])

-----------------------------------------------------------------------------
(* The formatters and publish functions on their own: any configuration
   strings, any reading, calls in any order *)

MaxCalls == 2       \* calls of the publish functions in one run

FmtRooms == {"kitchen", "den\"x"}
FmtIdentifiers == {"bmp180-1"}
FmtNames == {"Den Sensor", "Den \"Sensor\"", "C:\\den"}
FmtTemps == {-5, 0, 250}

FmtConfigs ==
    {[Data(room, None) EXCEPT !.mqtt.identifier = id, !.mqtt.name = name] :
        room \in FmtRooms, id \in FmtIdentifiers, name \in FmtNames}

FmtInit ==
    /\ mainPc = "formatter"
    /\ exitCode = "none"
    /\ fault = "none"
    /\ args = [log_level |-> None, config |-> "bmp180.toml"]
    /\ config \in FmtConfigs
    /\ logger = "uninit"
    /\ mainLog = <<>>
    /\ workerLog = <<>>
    /\ mqttOptions = NoOptions
    /\ threads = {"main"}
    /\ workerPc = "unspawned"
    /\ workerRet = "none"
    /\ reading \in FmtTemps \X Pressures
    /\ trace = <<>>
    /\ inbox = <<>>
    /\ handled = <<>>

FmtUnchanged ==
    UNCHANGED <<mainVars, mainLog, workerLog, threads, workerPc, workerRet,
                reading, inbox, handled>>

\* the topic and message publish_temperature_discovery_message builds
FmtTemperatureDiscovery ==
    /\ mainPc = "formatter"
    /\ Len(trace) < MaxCalls
    /\ trace' = Append(trace, temperature_discovery_call(config, TRUE))
    /\ FmtUnchanged

\* the topic and message publish_pressure_discovery_message builds
FmtPressureDiscovery ==
    /\ mainPc = "formatter"
    /\ Len(trace) < MaxCalls
    /\ trace' = Append(trace, pressure_discovery_call(config, TRUE))
    /\ FmtUnchanged

\* the topic and message publish_sensor_data builds
FmtSensorData ==
    /\ mainPc = "formatter"
    /\ Len(trace) < MaxCalls
    /\ trace' = Append(trace, sensor_data_call(config, reading[1], reading[2], TRUE))
    /\ FmtUnchanged

FmtNext == FmtTemperatureDiscovery \/ FmtPressureDiscovery \/ FmtSensorData

FmtSpec == FmtInit /\ [][FmtNext]_vars

-----------------------------------------------------------------------------
(* JSON (RFC 8259), as far as the messages need it: objects, arrays,
   strings with the two-character escapes, numbers without exponent *)

Ch(s, i) == SubSeq(s, i, i)
JsonWs == {" ", "\n", "\t", "\r"}
JsonDigits == {"0", "1", "2", "3", "4", "5", "6", "7", "8", "9"}
JsonEscapes == {"\"", "\\", "/", "b", "f", "n", "r", "t"}
JFail == [ok |-> FALSE, pos |-> 0, val |-> [t |-> "none", v |-> <<>>]]
JOk(pos, val) == [ok |-> TRUE, pos |-> pos, val |-> val]

RECURSIVE SkipWs(_, _)
SkipWs(s, i) ==
    IF i <= Len(s) /\ Ch(s, i) \in JsonWs THEN SkipWs(s, i + 1) ELSE i

\* the string whose opening quote is just before position i
RECURSIVE ScanString(_, _, _)
ScanString(s, i, acc) ==
    IF i > Len(s) THEN JFail
    ELSE LET c == Ch(s, i) IN
         IF c = "\"" THEN JOk(i + 1, [t |-> "string", v |-> acc])
         ELSE IF c = "\\"
              THEN IF i + 1 <= Len(s) /\ Ch(s, i + 1) \in JsonEscapes
                   THEN ScanString(s, i + 2, acc \o Ch(s, i + 1))
                   ELSE JFail
         ELSE IF c \in {"\n", "\t", "\r"} THEN JFail
         ELSE ScanString(s, i + 1, acc \o c)

RECURSIVE ScanDigits(_, _)
ScanDigits(s, i) ==
    IF i <= Len(s) /\ Ch(s, i) \in JsonDigits THEN ScanDigits(s, i + 1) ELSE i

ParseNumber(s, i) ==
    LET a == IF i <= Len(s) /\ Ch(s, i) = "-" THEN i + 1 ELSE i
        b == ScanDigits(s, a)
        intOk == b > a /\ (Ch(s, a) /= "0" \/ b = a + 1)
        c == IF b <= Len(s) /\ Ch(s, b) = "." THEN ScanDigits(s, b + 1) ELSE b
        fracOk == c = b \/ c > b + 1
    IN IF intOk /\ fracOk
       THEN JOk(c, [t |-> "number", v |-> SubSeq(s, i, c - 1)])
       ELSE JFail

RECURSIVE ParseValue(_, _), ParseMembers(_, _, _), ParseElements(_, _, _)

ParseValue(s, i0) ==
    LET i == SkipWs(s, i0) IN
    IF i > Len(s) THEN JFail
    ELSE LET c == Ch(s, i) IN
         CASE c = "{" ->
                LET j == SkipWs(s, i + 1) IN
                IF j <= Len(s) /\ Ch(s, j) = "}"
                THEN JOk(j + 1, [t |-> "object", v |-> <<>>])
                ELSE ParseMembers(s, j, <<>>)
           [] c = "[" ->
                LET j == SkipWs(s, i + 1) IN
                IF j <= Len(s) /\ Ch(s, j) = "]"
                THEN JOk(j + 1, [t |-> "array", v |-> <<>>])
                ELSE ParseElements(s, j, <<>>)
           [] c = "\"" -> ScanString(s, i + 1, "")
           [] c = "-" \/ c \in JsonDigits -> ParseNumber(s, i)
           [] OTHER ->
                IF i + 3 <= Len(s) /\ SubSeq(s, i, i + 3) \in {"true", "null"}
                THEN JOk(i + 4, [t |-> "literal", v |-> SubSeq(s, i, i + 3)])
                ELSE IF i + 4 <= Len(s) /\ SubSeq(s, i, i + 4) = "false"
                THEN JOk(i + 5, [t |-> "literal", v |-> "false"])
                ELSE JFail

\* the members of an object from the key at position i on
ParseMembers(s, i, acc) ==
    IF i > Len(s) \/ Ch(s, i) /= "\"" THEN JFail
    ELSE LET key == ScanString(s, i + 1, "") IN
         IF ~key.ok THEN JFail
         ELSE LET j == SkipWs(s, key.pos) IN
              IF j > Len(s) \/ Ch(s, j) /= ":" THEN JFail
              ELSE LET val == ParseValue(s, j + 1) IN
                   IF ~val.ok THEN JFail
                   ELSE LET e == SkipWs(s, val.pos)
                            acc2 == Append(acc, [k |-> key.val.v, v |-> val.val])
                        IN IF e > Len(s) THEN JFail
                           ELSE IF Ch(s, e) = ","
                           THEN ParseMembers(s, SkipWs(s, e + 1), acc2)
                           ELSE IF Ch(s, e) = "}"
                           THEN JOk(e + 1, [t |-> "object", v |-> acc2])
                           ELSE JFail

\* the elements of an array from the value at position i on
ParseElements(s, i, acc) ==
    LET val == ParseValue(s, i) IN
    IF ~val.ok THEN JFail
    ELSE LET e == SkipWs(s, val.pos)
             acc2 == Append(acc, val.val)
         IN IF e > Len(s) THEN JFail
            ELSE IF Ch(s, e) = ","
            THEN ParseElements(s, e + 1, acc2)
            ELSE IF Ch(s, e) = "]"
            THEN JOk(e + 1, [t |-> "array", v |-> acc2])
            ELSE JFail

\* the document s is, if it is one JSON value and nothing else
ParseJson(s) ==
    LET r == ParseValue(s, 1) IN
    IF r.ok /\ SkipWs(s, r.pos) = Len(s) + 1 THEN r ELSE JFail

HasMember(obj, key) ==
    obj.t = "object" /\ \E i \in 1..Len(obj.v) : obj.v[i].k = key
Member(obj, key) ==
    obj.v[CHOOSE i \in 1..Len(obj.v) :
             obj.v[i].k = key /\ \A j \in (i+1)..Len(obj.v) : obj.v[j].k /= key].v
IsString(val, str) == val.t = "string" /\ val.v = str
HasString(obj, key, str) == HasMember(obj, key) /\ IsString(Member(obj, key), str)
HasNumber(obj, key) == HasMember(obj, key) /\ Member(obj, key).t = "number"

IsDiscovery(e) == IsPublish(e) /\ e.kind \in {"disc_temp", "disc_pres"}
DeviceClass(e) == IF e.kind = "disc_temp" THEN "temperature" ELSE "pressure"

\* C14: for every configuration and both components, the discovery payload
\* is a JSON document with device_class the lowercase component name,
\* unique_id identifier_device_class, unit_of_measurement the component's
\* unit, value_template {{ value_json.<device_class> }} and a device object
\* with identifiers [identifier] and name name.
C14_DiscoveryIsJsonWithFields ==
    \A i \in 1..Len(trace) :
       IsDiscovery(trace[i]) =>
          LET doc == ParseJson(trace[i].payload)
              cls == DeviceClass(trace[i])
          IN /\ doc.ok
             /\ HasString(doc.val, "device_class", cls)
             /\ HasString(doc.val, "unique_id", config.mqtt.identifier \o "_" \o cls)
             /\ HasString(doc.val, "unit_of_measurement",
                          IF cls = "temperature" THEN "°C" ELSE "kPa")
             /\ HasString(doc.val, "value_template", "{{ value_json." \o cls \o " }}")
             /\ HasMember(doc.val, "device")
             /\ LET device == Member(doc.val, "device") IN
                   /\ HasString(device, "name", config.mqtt.name)
                   /\ HasMember(device, "identifiers")
                   /\ LET ids == Member(device, "identifiers") IN
                         /\ ids.t = "array"
                         /\ Len(ids.v) = 1
                         /\ IsString(ids.v[1], config.mqtt.identifier)

\* the field a value template {{ value_json.<field> }} references
TemplateField(tpl) == SubSeq(tpl, 15, Len(tpl) - 3)

\* a string that needs no escaping inside a JSON string
Plain(str) ==
    \A i \in 1..Len(str) : Ch(str, i) \notin {"\"", "\\", "\n", "\t", "\r"}

\* C15: for every room (identifier and name being plain), the state_topic of
\* both discovery payloads is the topic publish_sensor_data publishes on,
\* and the state payload has the temperature and pressure fields, among
\* them the one the payload's value template references.
C15_SharedStateTopic ==
    \A i \in 1..Len(trace) :
       (IsDiscovery(trace[i]) /\ Plain(config.mqtt.identifier) /\ Plain(config.mqtt.name)) =>
          LET doc == ParseJson(trace[i].payload)
              call == sensor_data_call(config, reading[1], reading[2], TRUE)
              state == ParseJson(call.payload)
          IN /\ doc.ok
             /\ HasString(doc.val, "state_topic", call.topic)
             /\ \A j \in 1..Len(trace) :
                   IsStatePublish(trace[j]) =>
                      HasString(doc.val, "state_topic", trace[j].topic)
             /\ HasMember(doc.val, "value_template")
             /\ state.ok
             /\ HasNumber(state.val, TemplateField(Member(doc.val, "value_template").v))
             /\ HasNumber(state.val, "temperature")
             /\ HasNumber(state.val, "pressure")

====
